---------------------------- MODULE Spec2Model ----------------------------
(***************************************************************************)
(* A model of src/components/ui/chart.tsx: the payload-to-config resolver  *)
(* getPayloadConfigFromPayload, the useChart hook and the two components   *)
(* that call the resolver (ChartTooltipContent, ChartLegendContent), and   *)
(* the CSS variable generator ChartStyle.                                  *)
(*                                                                         *)
(* JavaScript values are records [t, s, n, o]: t is the kind of the value, *)
(* s the text of a string (or the name of a function), n the value of a    *)
(* number (or 0/1 of a boolean), o the own properties of an object.        *)
(* Numbers are integers; objects are plain objects whose prototype is      *)
(* Object.prototype.                                                       *)
(***************************************************************************)
EXTENDS Integers, Sequences, FiniteSets

VARIABLES
    pc,             \* position of the running function or component
    config,         \* the ChartConfig object
    payloadItem,    \* resolver: the `payload` argument
    key,            \* resolver: the `key` argument
    configLabelKey, \* resolver: the local of that name when it returned
    result,         \* resolver: the returned value
    threw,          \* the error thrown by the running function, "" if none
    context,        \* components: the value of ChartContext
    chart,          \* components: the value useChart returned
    component,      \* components: which component renders
    props,          \* components: nameKey, labelKey, hideLabel, active
    payload,        \* components: the payload array handed in by recharts
    row,            \* components: the index of the next payload.map row
    calls,          \* components: the resolver calls of this render, in order
    styleOut        \* ChartStyle: the element it returned and its rule blocks

vars == <<pc, config, payloadItem, key, configLabelKey, result, threw,
          context, chart, component, props, payload, row, calls, styleOut>>

\* the arguments and locals of a resolver call made on its own
resolverVars == <<payloadItem, key, configLabelKey, result>>

\* what a component is rendered with
renderInputs == <<context, component, props, payload>>

-----------------------------------------------------------------------------
(* Bounds of the model *)

\* numbers carried by payload fields range over -1..MaxNumber (and 42)
MaxNumber == 2

\* the payload array of a render holds at most MaxItems items
MaxItems == 2

-----------------------------------------------------------------------------
(* JavaScript values *)

NoProps == <<>>

Undefined == [t |-> "undefined", s |-> "", n |-> 0, o |-> NoProps]
Null      == [t |-> "null",      s |-> "", n |-> 0, o |-> NoProps]
Str(x)    == [t |-> "string",    s |-> x,  n |-> 0, o |-> NoProps]
Num(x)    == [t |-> "number",    s |-> "", n |-> x, o |-> NoProps]
Bool(b)   == [t |-> "boolean",   s |-> "", n |-> IF b THEN 1 ELSE 0, o |-> NoProps]
Func(x)   == [t |-> "function",  s |-> x,  n |-> 0, o |-> NoProps]
Obj(f)    == [t |-> "object",    s |-> "", n |-> 0, o |-> f]

\* the members every plain object inherits from Object.prototype
ObjectPrototype == {"toString", "constructor", "hasOwnProperty"}

\* typeof v
TypeOf(v) == IF v.t = "null" THEN "object" ELSE v.t

\* the truthiness `&&`, `||`, `!` and `?:` test
Truthy(v) ==
    CASE v.t = "undefined" -> FALSE
      [] v.t = "null"      -> FALSE
      [] v.t = "boolean"   -> v.n = 1
      [] v.t = "number"    -> v.n # 0
      [] v.t = "string"    -> v.s # ""
      [] OTHER             -> TRUE

\* a || b
Or(a, b) == IF Truthy(a) THEN a ELSE b

OwnKeys(v) == DOMAIN v.o

\* k in v, for an object v
In(k, v) == k \in OwnKeys(v) \/ k \in ObjectPrototype

\* v[k] and v.k, for an object v: own property, else inherited, else undefined
Get(v, k) ==
    IF k \in OwnKeys(v) THEN v.o[k]
    ELSE IF v.t = "object" /\ k \in ObjectPrototype THEN Func(k)
    ELSE Undefined

\* `k in v` throws a TypeError unless v is an object
InThrows(v) == v.t \notin {"object", "function"}

\* v.k throws a TypeError when v is null or undefined
GetThrows(v) == v.t \in {"null", "undefined"}

Digits == <<"0", "1", "2", "3", "4", "5", "6", "7", "8", "9">>

RECURSIVE NumberToString(_)
NumberToString(x) ==
    IF x < 0 THEN "-" \o NumberToString(0 - x)
    ELSE IF x < 10 THEN Digits[x + 1]
    ELSE NumberToString(x \div 10) \o Digits[(x % 10) + 1]

\* String(v) and `${v}`
StringOf(v) ==
    CASE v.t = "string"    -> v.s
      [] v.t = "number"    -> NumberToString(v.n)
      [] v.t = "boolean"   -> IF v.n = 1 THEN "true" ELSE "false"
      [] v.t = "undefined" -> "undefined"
      [] v.t = "null"      -> "null"
      [] v.t = "function"  -> "function " \o v.s \o "() { [native code] }"
      [] OTHER             -> "[object Object]"

-----------------------------------------------------------------------------
(* getPayloadConfigFromPayload *)

TypeErrorName == "TypeError"
UnsetKey == "<unset>"

\* what a call did: the error it threw ("" if none), the value it returned,
\* and the value of its local configLabelKey when it returned
Outcome(e, v, k) == [threw |-> e, value |-> v, configLabelKey |-> k]

\* the guard of the first statement: not an object, or null
IsNotObject(p) == TypeOf(p) # "object" \/ p = Null

\* the local payloadPayload: the nested payload when it is an object
payloadPayload(typedPayload) ==
    LET inner == Get(typedPayload, "payload")
    IN  IF Truthy(inner) /\ TypeOf(inner) = "object" /\ inner # Null
        THEN inner
        ELSE Undefined

IsStringOrNumber(v) == TypeOf(v) = "string" \/ TypeOf(v) = "number"

\* configLabelKeyOf with the two branches in the other order
configLabelKeyOfNestedFirst(typedPayload, nested, k) ==
    IF Truthy(nested) /\ In(k, nested) /\ IsStringOrNumber(Get(nested, k))
    THEN StringOf(Get(nested, k))
    ELSE IF In(k, typedPayload) /\ IsStringOrNumber(Get(typedPayload, k))
    THEN StringOf(Get(typedPayload, k))
    ELSE k

\* the two branches that reassign configLabelKey, else its initial value key
configLabelKeyOf(typedPayload, nested, k) ==
    IF In(k, typedPayload) /\ IsStringOrNumber(Get(typedPayload, k))
    THEN StringOf(Get(typedPayload, k))
    ELSE IF Truthy(nested) /\ In(k, nested) /\ IsStringOrNumber(Get(nested, k))
    THEN StringOf(Get(nested, k))
    ELSE k

\* LookUp trying the literal key before the effective key
LookUpLiteralFirst(cfg, labelKey, k) ==
    IF In(k, cfg) THEN Get(cfg, k) ELSE Get(cfg, labelKey)

\* the return statement
LookUp(cfg, labelKey, k) ==
    IF In(labelKey, cfg) THEN Get(cfg, labelKey) ELSE Get(cfg, k)

\* the statements after the guard
ResolveObject(cfg, p, k) ==
    IF GetThrows(p) \/ InThrows(p) THEN Outcome(TypeErrorName, Undefined, UnsetKey)
    ELSE LET nested   == payloadPayload(p)
             labelKey == configLabelKeyOf(p, nested, k)
         IN  IF Truthy(nested) /\ InThrows(nested)
             THEN Outcome(TypeErrorName, Undefined, UnsetKey)
             ELSE IF InThrows(cfg) THEN Outcome(TypeErrorName, Undefined, labelKey)
             ELSE Outcome("", LookUp(cfg, labelKey, k), labelKey)

\* the resolver with the literal-key fallback in place of the guard's return
getPayloadConfigFromPayloadNoGuard(cfg, p, k) ==
    IF IsNotObject(p) THEN Outcome("", Get(cfg, k), UnsetKey)
    ELSE ResolveObject(cfg, p, k)

\* the resolver answering from the render's earlier calls: once a call has
\* been made it reports a miss
getPayloadConfigFromPayloadStateful(cfg, p, k) ==
    IF IsNotObject(p) \/ Len(calls) > 0 THEN Outcome("", Undefined, UnsetKey)
    ELSE ResolveObject(cfg, p, k)

getPayloadConfigFromPayload(cfg, p, k) ==
    IF IsNotObject(p) THEN Outcome("", Undefined, UnsetKey)
    ELSE ResolveObject(cfg, p, k)

-----------------------------------------------------------------------------
(* ChartConfig *)

Absent == <<>>

\* an object literal: the properties that are given (Absent ones are left out)
Literal(f) ==
    LET given == {k \in DOMAIN f : f[k] # Absent}
    IN  Obj([k \in given |-> f[k][1]])

Some(v) == <<v>>

\* whether property k of object e is given a value
IsSet(e, k) == k \in OwnKeys(e) /\ e.o[k] # Undefined

IsString(v) == TypeOf(v) = "string"

\* Record<keyof typeof THEMES, string>
IsThemeRecord(v) ==
    /\ v.t = "object"
    /\ OwnKeys(v) = {"light", "dark"}
    /\ \A k \in OwnKeys(v) : IsString(v.o[k])

\* the first member of the union: { color?: string; theme?: never }
IsDirectColor(e) ==
    /\ IsSet(e, "color") => IsString(e.o["color"])
    /\ ~IsSet(e, "theme")

\* the second member of the union: { color?: never; theme: Record<...> }
IsThemeColor(e) ==
    /\ ~IsSet(e, "color")
    /\ IsSet(e, "theme")
    /\ IsThemeRecord(e.o["theme"])

\* the entry type without the `never` members: color and theme together pass
ChartConfigEntryNoNever(e) ==
    /\ e.t = "object"
    /\ IsSet(e, "color") => IsString(e.o["color"])
    /\ IsSet(e, "theme") => IsThemeRecord(e.o["theme"])

\* the type of a ChartConfig entry: the entries the type checker accepts
ChartConfigEntry(e) ==
    /\ e.t = "object"
    /\ IsDirectColor(e) \/ IsThemeColor(e)

\* the ChartConfig objects over the keys ks whose entries are among es
ChartConfigs(ks, es) ==
    LET accepted == {e \in es : ChartConfigEntry(e)}
    IN  {Obj(f) : f \in UNION {[d -> accepted] : d \in SUBSET ks}}

-----------------------------------------------------------------------------
(* The resolver called on its own *)

Numbers == (-1 .. MaxNumber) \cup {42}

\* the values a field named by key may hold
FieldValues ==
    {Undefined, Null, Bool(TRUE), Str(""), Str("bar"), Str("toString"), Obj(NoProps)}
        \cup {Num(x) : x \in Numbers}

FieldOptions == {Absent} \cup {Some(v) : v \in FieldValues}

\* the nested payload: left out, not an object, or an object with or without foo
NestedOptions ==
    {Absent, Some(Null), Some(Str("bar")), Some(Num(1))}
        \cup {Some(Literal([foo |-> f])) : f \in FieldOptions}

PayloadObjects ==
    {Literal([foo |-> f, payload |-> n]) : f \in FieldOptions, n \in NestedOptions}

PayloadItems ==
    {Undefined, Null, Str("foo"), Num(1), Bool(TRUE)} \cup PayloadObjects

ResolveKeys == {"foo", "bar", "42", "payload", "toString"}

EntryA == Literal([label |-> Some(Str("A")), color |-> Some(Str("red")), theme |-> Absent])
EntryB == Literal([label |-> Some(Str("B")), color |-> Absent, theme |-> Absent])

ResolveConfigs == ChartConfigs({"foo", "bar", "42"}, {EntryA, EntryB})

\* ChartStyle has not rendered
NotRendered == [element |-> "", blocks |-> <<>>]

Idle ==
    /\ context = Null
    /\ chart = Undefined
    /\ component = ""
    /\ props = NoProps
    /\ payload = <<>>
    /\ row = 0
    /\ calls = <<>>
    /\ styleOut = NotRendered

ResolveInit ==
    /\ pc = "resolve"
    /\ config \in ResolveConfigs
    /\ payloadItem \in PayloadItems
    /\ key \in ResolveKeys
    /\ configLabelKey = UnsetKey
    /\ result = Undefined
    /\ threw = ""
    /\ Idle

\* one call of getPayloadConfigFromPayload(config, payloadItem, key)
Resolve ==
    /\ pc = "resolve"
    /\ LET out == getPayloadConfigFromPayload(config, payloadItem, key)
       IN  /\ pc' = IF out.threw = "" THEN "returned" ELSE "thrown"
           /\ result' = out.value
           /\ threw' = out.threw
           /\ configLabelKey' = out.configLabelKey
    /\ UNCHANGED <<config, payloadItem, key, renderInputs, chart, row, calls, styleOut>>

ResolveNext == Resolve

SpecResolve == ResolveInit /\ [][ResolveNext]_vars

-----------------------------------------------------------------------------
(* Claims about the resolver, checked under SpecResolve *)

Returned == pc = "returned"

ItemIsObject == payloadItem.t = "object"

\* the item has an own field named key holding a string or a number
DirectQualifies ==
    /\ ItemIsObject
    /\ key \in DOMAIN payloadItem.o
    /\ payloadItem.o[key].t \in {"string", "number"}

\* the item has a nested payload object
HasNestedObject ==
    /\ ItemIsObject
    /\ "payload" \in DOMAIN payloadItem.o
    /\ payloadItem.o["payload"].t = "object"

\* the nested payload has an own field named key holding a string or a number
NestedQualifies ==
    /\ HasNestedObject
    /\ key \in DOMAIN payloadItem.o["payload"].o
    /\ payloadItem.o["payload"].o[key].t \in {"string", "number"}

\* the effective key the three tiers prescribe
ThreeTierKey ==
    IF DirectQualifies THEN StringOf(payloadItem.o[key])
    ELSE IF NestedQualifies THEN StringOf(payloadItem.o["payload"].o[key])
    ELSE key

\* C1: for an object payload item the effective lookup key is the direct
\* field's value as a string if that field holds a string or number, else the
\* nested payload field's value as a string if that holds a string or number,
\* else key itself; the number 42 becomes "42"; the direct field wins over
\* the nested one; a direct field of another type does not block the nested.
C1_ThreeTierOrder ==
    (Returned /\ ItemIsObject) =>
        /\ configLabelKey = ThreeTierKey
        /\ (DirectQualifies /\ payloadItem.o[key] = Num(42)) => configLabelKey = "42"
        /\ (DirectQualifies /\ payloadItem.o[key].t = "string")
               => configLabelKey = payloadItem.o[key].s
        /\ (~DirectQualifies /\ ~NestedQualifies) => configLabelKey = key

\* both tiers qualify with different values, and the direct field was used
C1_Witness ==
    /\ Returned
    /\ DirectQualifies
    /\ NestedQualifies
    /\ payloadItem.o[key] = Num(42)
    /\ payloadItem.o["payload"].o[key] = Str("bar")
    /\ configLabelKey = "42"

\* C2: the entry of the effective key is returned whenever the effective key
\* is a key of config; the entry of the literal key is returned only when the
\* effective key is not a key of config.
C2_EffectiveKeyFirst ==
    (Returned /\ ItemIsObject) =>
        /\ configLabelKey \in OwnKeys(config) => result = config.o[configLabelKey]
        /\ (key \in OwnKeys(config) /\ result = config.o[key]
              /\ configLabelKey \in OwnKeys(config))
               => config.o[key] = config.o[configLabelKey]

\* the coerced field value and the literal key are both keys of config, with
\* different entries, and the entry of the coerced value was returned
C2_Witness ==
    /\ Returned
    /\ DirectQualifies
    /\ configLabelKey # key
    /\ configLabelKey \in OwnKeys(config)
    /\ key \in OwnKeys(config)
    /\ config.o[configLabelKey] # config.o[key]
    /\ result = config.o[configLabelKey]

\* C3: undefined is returned whenever neither the effective key nor the
\* original key is an entry defined in config, also for keys such as
\* "toString" that config does not define itself.
C3_UndefinedWhenAbsent ==
    (Returned /\ ItemIsObject
        /\ configLabelKey \notin OwnKeys(config) /\ key \notin OwnKeys(config))
        => result = Undefined

\* C4: a payload item that is null or not an object makes the resolver return
\* undefined at once, also when key is a key of config.
C4_NonObjectGuard ==
    (pc # "resolve" /\ ~ItemIsObject) =>
        /\ Returned
        /\ result = Undefined
        /\ configLabelKey = UnsetKey

\* a non-object item with a key that config defines
C4_Witness ==
    /\ Returned
    /\ payloadItem = Null
    /\ key \in OwnKeys(config)
    /\ result = Undefined

\* C5: the call never raises an error and returns a config entry or undefined.
C5_NoErrorEntryOrUndefined ==
    /\ pc # "thrown"
    /\ threw = ""
    /\ Returned =>
          \/ result = Undefined
          \/ \E k \in OwnKeys(config) : result = config.o[k]

-----------------------------------------------------------------------------
(* ChartStyle *)

THEMES == <<[theme |-> "light", prefix |-> ""], [theme |-> "dark", prefix |-> ".dark"]>>

\* Object.entries(o) for an object whose keys were inserted in the given order
ObjectEntries(v, order) ==
    LET F[i \in 0 .. Len(order)] ==
            IF i = 0 THEN <<>>
            ELSE IF order[i] \in OwnKeys(v)
                 THEN Append(F[i - 1], [key |-> order[i], itemConfig |-> v.o[order[i]]])
                 ELSE F[i - 1]
    IN  F[Len(order)]

\* x?.[k]
OptionalGet(x, k) == IF x.t \in {"null", "undefined"} THEN Undefined ELSE Get(x, k)

\* the filter of Object.entries(config): theme or color is given
colorConfig(cfg, order) ==
    SelectSeq(ObjectEntries(cfg, order),
              LAMBDA en : Truthy(Or(Get(en.itemConfig, "theme"), Get(en.itemConfig, "color"))))

\* the local color of the inner map, but always read from the light theme
colorOfLightOnly(itemConfig, theme) ==
    Or(OptionalGet(Get(itemConfig, "theme"), "light"), Get(itemConfig, "color"))

\* the local color of the inner map
colorOf(itemConfig, theme) ==
    Or(OptionalGet(Get(itemConfig, "theme"), theme), Get(itemConfig, "color"))

\* the inner map and filter(Boolean): the variables of one theme's block
BlockVariables(entries, theme) ==
    LET F[i \in 0 .. Len(entries)] ==
            IF i = 0 THEN <<>>
            ELSE LET color == colorOf(entries[i].itemConfig, theme)
                 IN  IF Truthy(color)
                     THEN Append(F[i - 1], [name  |-> "--color-" \o entries[i].key,
                                            value |-> StringOf(color)])
                     ELSE F[i - 1]
    IN  F[Len(entries)]

NoStyle == [element |-> "null", blocks |-> <<>>]

\* the component: null, or a style element with one rule block per theme
ChartStyle(id, cfg, order) ==
    LET entries == colorConfig(cfg, order)
    IN  IF Len(entries) = 0 THEN NoStyle
        ELSE [element |-> "style",
              blocks  |-> [i \in 1 .. Len(THEMES) |->
                            [theme     |-> THEMES[i].theme,
                             selector  |-> THEMES[i].prefix \o " [data-chart=" \o id \o "]",
                             variables |-> BlockVariables(entries, THEMES[i].theme)]]]

StyleKeyOrder == <<"desktop", "mobile">>

ChartId == "chart-r1"

ThemeColors == {"", "#fff", "#000"}

\* candidate entries, well typed or not
CandidateEntries ==
    {Literal([label |-> Some(Str("Visitors")), color |-> c, theme |-> th]) :
        c  \in {Absent, Some(Str("")), Some(Str("red"))},
        th \in {Absent} \cup
               {Some(Obj([light |-> Str(l), dark |-> Str(d)])) : l \in ThemeColors, d \in ThemeColors}}

StyleConfigs == ChartConfigs({"desktop", "mobile"}, CandidateEntries)

StyleInit ==
    /\ pc = "style"
    /\ config \in StyleConfigs
    /\ payloadItem = Undefined
    /\ key = ""
    /\ configLabelKey = UnsetKey
    /\ result = Undefined
    /\ threw = ""
    /\ Idle

\* ChartContainer renders <ChartStyle id={chartId} config={config} />
RenderChartStyle ==
    /\ pc = "style"
    /\ pc' = "styled"
    /\ styleOut' = ChartStyle(ChartId, config, StyleKeyOrder)
    /\ UNCHANGED <<config, resolverVars, threw, renderInputs, chart, row, calls>>

StyleNext == RenderChartStyle

SpecStyle == StyleInit /\ [][StyleNext]_vars

-----------------------------------------------------------------------------
(* Claims about ChartConfig and ChartStyle, checked under SpecStyle *)

ConfigEntries == {config.o[k] : k \in OwnKeys(config)}

\* C6 (as stated): every accepted entry has exactly one of color and theme.
C6_ExactlyOneOfColorTheme ==
    pc = "styled" =>
        \A e \in ConfigEntries : IsSet(e, "color") # IsSet(e, "theme")

\* C6 (amended): no accepted entry has both color and theme; an entry may
\* have neither, and ChartStyle then emits no variable for it.
C6_AtMostOneOfColorTheme ==
    /\ \A e \in ConfigEntries : ~(IsSet(e, "color") /\ IsSet(e, "theme"))
    /\ pc = "styled" =>
          \A k \in OwnKeys(config) :
              (~IsSet(config.o[k], "color") /\ ~IsSet(config.o[k], "theme")) =>
                  \A i \in 1 .. Len(styleOut.blocks) :
                      \A j \in 1 .. Len(styleOut.blocks[i].variables) :
                          styleOut.blocks[i].variables[j].name # "--color-" \o k

\* an accepted config with an entry that has neither and one that has a theme
C6_Witness ==
    /\ pc = "styled"
    /\ OwnKeys(config) = {"desktop", "mobile"}
    /\ ~IsSet(config.o["desktop"], "color")
    /\ ~IsSet(config.o["desktop"], "theme")
    /\ IsSet(config.o["mobile"], "theme")
    /\ styleOut.element = "style"

\* the text of a property that holds a non-empty string, else ""
TextOf(e, k) == IF k \in DOMAIN e.o /\ e.o[k].t = "string" THEN e.o[k].s ELSE ""

\* the value an entry is to contribute to the block of theme t
ExpectedValue(e, t) ==
    LET themed == IF "theme" \in DOMAIN e.o THEN TextOf(e.o["theme"], t) ELSE ""
    IN  IF themed # "" THEN themed ELSE TextOf(e, "color")

HasColorOrTheme(e) == TextOf(e, "color") # "" \/ "theme" \in DOMAIN e.o

OtherTheme(t) == IF t = "light" THEN "dark" ELSE "light"

VariablesNamed(b, name) == {j \in 1 .. Len(b.variables) : b.variables[j].name = name}

\* C10: ChartStyle emits nothing when no entry has a non-empty color or a
\* theme; otherwise exactly one rule block per theme (light, dark), where each
\* entry contributes at most one variable --color-<key>, valued theme[t] when
\* that is non-empty and else the entry's color; an entry with neither
\* contributes nothing, and a themed entry's color for one theme is never
\* emitted in the other theme's block.
C10_ChartStyleBlocks ==
    pc = "styled" =>
        /\ (\A e \in ConfigEntries : ~HasColorOrTheme(e)) <=> styleOut.element = "null"
        /\ styleOut.element = "null" => styleOut.blocks = <<>>
        /\ styleOut.element = "style" =>
            /\ Len(styleOut.blocks) = 2
            /\ styleOut.blocks[1].theme = "light"
            /\ styleOut.blocks[2].theme = "dark"
            /\ \A i \in 1 .. 2 :
                LET b == styleOut.blocks[i]
                IN  /\ \A j \in 1 .. Len(b.variables) :
                           \E k \in OwnKeys(config) : b.variables[j].name = "--color-" \o k
                    /\ \A k \in OwnKeys(config) :
                        LET e    == config.o[k]
                            mine == VariablesNamed(b, "--color-" \o k)
                        IN  /\ Cardinality(mine) <= 1
                            /\ \A j \in mine : b.variables[j].value = ExpectedValue(e, b.theme)
                            /\ ExpectedValue(e, b.theme) # "" => mine # {}
                            /\ ~HasColorOrTheme(e) => mine = {}
                            /\ ("theme" \in DOMAIN e.o
                                  /\ TextOf(e.o["theme"], "light") # TextOf(e.o["theme"], "dark"))
                                 => \A j \in mine :
                                        b.variables[j].value
                                            # TextOf(e.o["theme"], OtherTheme(b.theme))

\* a themed entry and a plain-colour entry, each emitted in both blocks
C10_Witness ==
    /\ pc = "styled"
    /\ OwnKeys(config) = {"desktop", "mobile"}
    /\ IsSet(config.o["desktop"], "theme")
    /\ config.o["desktop"].o["theme"] = Obj([light |-> Str("#fff"), dark |-> Str("#000")])
    /\ TextOf(config.o["mobile"], "color") = "red"
    /\ styleOut.blocks[1].variables =
           <<[name |-> "--color-desktop", value |-> "#fff"],
             [name |-> "--color-mobile", value |-> "red"]>>
    /\ styleOut.blocks[2].variables =
           <<[name |-> "--color-desktop", value |-> "#000"],
             [name |-> "--color-mobile", value |-> "red"]>>

-----------------------------------------------------------------------------
(* useChart, ChartTooltipContent and ChartLegendContent *)

UseChartError == "useChart must be used within a <ChartContainer />"

\* useChart without the check of the context
useChartUnchecked(ctx) == Outcome("", ctx, UnsetKey)

\* the hook: the context, or the error when there is none
useChart(ctx) ==
    IF ~Truthy(ctx) THEN Outcome(UseChartError, Undefined, UnsetKey)
    ELSE Outcome("", ctx, UnsetKey)

\* the key of the tooltip label: labelKey || item?.dataKey || item?.name || "value"
tooltipLabelKey(labelKey, item) ==
    StringOf(Or(Or(Or(labelKey, OptionalGet(item, "dataKey")),
                   OptionalGet(item, "name")),
                Str("value")))

\* the key of a tooltip row:
\* nameKey || String(item.name || item.dataKey || "") || "value"
tooltipRowKey(nameKey, item) ==
    StringOf(Or(Or(nameKey,
                   Str(StringOf(Or(Or(Get(item, "name"), Get(item, "dataKey")), Str(""))))),
                Str("value")))

\* the key of a legend item: nameKey || item.dataKey || "value"
legendKey(nameKey, item) ==
    StringOf(Or(Or(nameKey, Get(item, "dataKey")), Str("value")))

\* the record of one resolver call made by a component
Call(site, item, k, out) ==
    [site |-> site, item |-> item, key |-> k, value |-> out.value, threw |-> out.threw]

\* the payload items recharts hands to the tooltip and the legend
RenderItems ==
    {Literal([dataKey |-> d, name |-> n, payload |-> p]) :
        d \in {Absent, Some(Str("desktop")), Some(Num(0)), Some(Num(MaxNumber))},
        n \in {Absent, Some(Str("Desktop"))},
        p \in {Absent, Some(Literal([browser |-> Some(Str("chrome")),
                                     month   |-> Some(Str("jan"))]))}}

RenderPayloads == UNION {[1 .. len -> RenderItems] : len \in 0 .. MaxItems}

RenderProps ==
    [nameKey   : {Undefined, Str("browser")},
     labelKey  : {Undefined, Str("month")},
     hideLabel : BOOLEAN,
     active    : BOOLEAN]

\* the config a ChartContainer provides
RenderConfig ==
    Obj([desktop |-> EntryA, chrome |-> EntryB])

\* the default of createContext, or the value of the Provider
Contexts == {Null, Obj([config |-> RenderConfig])}

RenderInit ==
    /\ pc = "render"
    /\ context \in Contexts
    /\ component \in {"ChartTooltipContent", "ChartLegendContent"}
    /\ props \in RenderProps
    /\ payload \in RenderPayloads
    /\ chart = Undefined
    /\ config = Undefined
    /\ row = 0
    /\ calls = <<>>
    /\ payloadItem = Undefined
    /\ key = ""
    /\ configLabelKey = UnsetKey
    /\ result = Undefined
    /\ threw = ""
    /\ styleOut = NotRendered

\* const { config } = useChart(), the first statement of both components
UseChart ==
    /\ pc = "render"
    /\ LET out == useChart(context)
       IN  IF out.threw # ""
           THEN /\ pc' = "thrown"
                /\ threw' = out.threw
                /\ UNCHANGED <<chart, config, row>>
           ELSE IF GetThrows(out.value)
           THEN /\ pc' = "thrown"
                /\ threw' = TypeErrorName
                /\ chart' = out.value
                /\ UNCHANGED <<config, row>>
           ELSE /\ pc' = IF component = "ChartTooltipContent" THEN "memo" ELSE "legend"
                /\ chart' = out.value
                /\ config' = Get(out.value, "config")
                /\ row' = 1
                /\ UNCHANGED threw
    /\ UNCHANGED <<resolverVars, renderInputs, calls, styleOut>>

\* a component calls the resolver and keeps what it returned
CallResolver(site, item, k, next) ==
    LET out == getPayloadConfigFromPayload(config, item, k)
    IN  /\ calls' = Append(calls, Call(site, item, k, out))
        /\ threw' = out.threw
        /\ pc' = IF out.threw # "" THEN "thrown" ELSE next

\* the useMemo callback that computes tooltipLabel
TooltipLabel ==
    /\ pc = "memo"
    /\ IF props.hideLabel \/ Len(payload) = 0 \/ ~Truthy(payload[1])
       THEN /\ pc' = "rows"
            /\ UNCHANGED <<calls, threw>>
       ELSE CallResolver("label", payload[1],
                         tooltipLabelKey(props.labelKey, payload[1]), "rows")
    /\ UNCHANGED <<config, resolverVars, renderInputs, chart, row, styleOut>>

\* one callback of payload.map in the tooltip
TooltipRow ==
    /\ pc = "rows"
    /\ props.active
    /\ row <= Len(payload)
    /\ IF GetThrows(payload[row])
       THEN /\ pc' = "thrown"
            /\ threw' = TypeErrorName
            /\ UNCHANGED calls
       ELSE CallResolver("row", payload[row],
                         tooltipRowKey(props.nameKey, payload[row]), "rows")
    /\ row' = row + 1
    /\ UNCHANGED <<config, resolverVars, renderInputs, chart, styleOut>>

\* the tooltip returns: null when inactive or empty, else the rows
TooltipReturn ==
    /\ pc = "rows"
    /\ ~props.active \/ row > Len(payload)
    /\ pc' = "done"
    /\ UNCHANGED <<config, resolverVars, threw, renderInputs, chart, row, calls, styleOut>>

\* one callback of payload.map in the legend
LegendRow ==
    /\ pc = "legend"
    /\ row <= Len(payload)
    /\ IF GetThrows(payload[row])
       THEN /\ pc' = "thrown"
            /\ threw' = TypeErrorName
            /\ UNCHANGED calls
       ELSE CallResolver("legend", payload[row],
                         legendKey(props.nameKey, payload[row]), "legend")
    /\ row' = row + 1
    /\ UNCHANGED <<config, resolverVars, renderInputs, chart, styleOut>>

\* the legend returns: null when empty, else the items
LegendReturn ==
    /\ pc = "legend"
    /\ row > Len(payload)
    /\ pc' = "done"
    /\ UNCHANGED <<config, resolverVars, threw, renderInputs, chart, row, calls, styleOut>>

RenderNext ==
    \/ UseChart
    \/ TooltipLabel
    \/ TooltipRow
    \/ TooltipReturn
    \/ LegendRow
    \/ LegendReturn

SpecRender == RenderInit /\ [][RenderNext]_vars

-----------------------------------------------------------------------------
(* Claims about the components, checked under SpecRender *)

\* C7: useChart throws its error exactly when no chart context is provided and
\* otherwise returns the context unchanged; it runs before every resolver
\* call, so no call is made in a render without a configuration; and it is
\* the only error the components raise.
C7_UseChartGuard ==
    /\ pc # "render" => (threw = UseChartError <=> context = Null)
    /\ threw \in {"", UseChartError}
    /\ pc = "thrown" => calls = <<>>
    /\ pc \notin {"render", "thrown"} =>
          /\ chart = context
          /\ config = context.o["config"]
    /\ Len(calls) > 0 =>
          /\ context # Null
          /\ config = context.o["config"]

\* a render without a context and with payload items: the hook threw and the
\* resolver was not called
C7_Witness ==
    /\ pc = "thrown"
    /\ context = Null
    /\ Len(payload) > 0
    /\ threw = UseChartError
    /\ calls = <<>>

\* calls of one render (one config) with equal item and key returned the same
SameInputsSameResult(cs) ==
    \A i, j \in 1 .. Len(cs) :
        (cs[i].item = cs[j].item /\ cs[i].key = cs[j].key)
            => (cs[i].value = cs[j].value /\ cs[i].threw = cs[j].threw)

FieldOf(item, k) == IF k \in DOMAIN item.o THEN item.o[k] ELSE Undefined

\* the key the stated preference order gives: the override if given, else
\* dataKey, else (tooltip only) name, else "value"
PreferredKey(site, item) ==
    LET override == IF site = "label" THEN props.labelKey ELSE props.nameKey
    IN  IF Truthy(override) THEN StringOf(override)
        ELSE IF Truthy(FieldOf(item, "dataKey")) THEN StringOf(FieldOf(item, "dataKey"))
        ELSE IF site # "legend" /\ Truthy(FieldOf(item, "name"))
        THEN StringOf(FieldOf(item, "name"))
        ELSE "value"

\* C9: the key passed to the resolver is the override (labelKey for the label,
\* nameKey for a row), else the item's dataKey, else the item's name, else
\* "value", in the tooltip label and in each tooltip row alike; the legend
\* uses nameKey, else dataKey, else "value"; the key is never empty.
C9_KeyPreference ==
    \A i \in 1 .. Len(calls) :
        /\ calls[i].key = PreferredKey(calls[i].site, calls[i].item)
        /\ calls[i].key # ""

=============================================================================
